---- MODULE Spec2Model ----
(***************************************************************************)
(* pInk compressor (compressor.go), atomic-counter variant: main/run, the  *)
(* worker pool, the job channel, the WaitGroup, the global ffmpegMutex and *)
(* the shared Stats, over a small model of the working directory.          *)
(***************************************************************************)
EXTENDS Integers, Sequences, FiniteSets, TLC

\* ------------------------------------------------------------------ bounds
\* runtime.NumCPU() ranges over 1..MaxWorkers.
MaxWorkers == 2
\* The working directory holds the first n image files of ImageFiles, n in 0..MaxFiles.
MaxFiles == 2

Workers == 1..MaxWorkers

\* ------------------------------------------------- strings as char sequences
\* strings.ToLower, on the letters the model's names and answers use.
UpperMap == [P |-> "p", N |-> "n", G |-> "g", S |-> "s", I |-> "i", M |-> "m"]

ToLower(s) == [k \in DOMAIN s |-> IF s[k] \in DOMAIN UpperMap THEN UpperMap[s[k]] ELSE s[k]]

IsSpace(c) == c \in {" ", "\n", "\t", "\r"}

RECURSIVE TrimLeft(_)
TrimLeft(s) == IF s # <<>> /\ IsSpace(Head(s)) THEN TrimLeft(Tail(s)) ELSE s

RECURSIVE TrimRight(_)
TrimRight(s) ==
    IF s # <<>> /\ IsSpace(s[Len(s)]) THEN TrimRight(SubSeq(s, 1, Len(s) - 1)) ELSE s

\* strings.TrimSpace
TrimSpace(s) == TrimRight(TrimLeft(s))

\* strings.HasPrefix(name, ".")
HasDotPrefix(name) == name # <<>> /\ Head(name) = "."

\* filepath.Ext: the suffix beginning at the last dot of the name, "" if there is none.
Dots(name) == {k \in DOMAIN name : name[k] = "."}

Ext(name) ==
    IF Dots(name) = {} THEN <<>>
    ELSE LET d == CHOOSE k \in Dots(name) : \A j \in Dots(name) : j <= k
         IN  SubSeq(name, d, Len(name))

\* strings.TrimSuffix(name, suffix)
TrimSuffix(name, suffix) ==
    IF Len(suffix) <= Len(name)
       /\ SubSeq(name, Len(name) - Len(suffix) + 1, Len(name)) = suffix
    THEN SubSeq(name, 1, Len(name) - Len(suffix))
    ELSE name

ImageExts == { <<".", "p", "n", "g">>, <<".", "j", "p", "g">>, <<".", "j", "p", "e", "g">>,
               <<".", "g", "i", "f">>, <<".", "a", "v", "i", "f">> }

isImage(name) == ToLower(Ext(name)) \in ImageExts

WebpExt == <<".", "w", "e", "b", "p">>

\* --------------------------------------------------------- the directory
\* Image files that may be in the working directory, in os.ReadDir's (sorted) order.
\* a.jpg and a.png convert to the same a.webp.
ImageFiles == << <<"a", ".", "j", "p", "g">>,
                 <<"a", ".", "p", "n", "g">>,
                 <<"b", ".", "P", "N", "G">>,
                 <<"c", ".", "g", "i", "f">> >>

\* Entries that are always there and are never converted: a dotfile, a converted
\* file, a text file and a subdirectory.
HiddenFile == <<".", "h", ".", "p", "n", "g">>
OldWebp == <<"a", ".", "w", "e", "b", "p">>
TextFile == <<"n", ".", "t", "x", "t">>
SubDir == <<"s", "u", "b">>
OutputDirName == <<"c", "o", "m", "p", "r", "e", "s", "s", "e", "d">>

\* Every name os.ReadDir can list in the working directory, in sorted (byte) order.
DirOrder == << HiddenFile, ImageFiles[1], ImageFiles[2], OldWebp, ImageFiles[3],
               ImageFiles[4], OutputDirName, TextFile, SubDir >>

ImageNames == {ImageFiles[k] : k \in DOMAIN ImageFiles}

\* A path is a directory ("work" is cfg.WorkDir, "out" is WorkDir/compressed) and a name.
Path(dir, name) == [dir |-> dir, name |-> name]

Sources == {Path("work", n) : n \in ImageNames}

DestName(name) == TrimSuffix(name, Ext(name)) \o WebpExt

Dests == {Path(d, DestName(n)) : d \in {"work", "out"}, n \in ImageNames}

AllPaths == Sources \cup Dests
            \cup {Path("work", HiddenFile), Path("work", OldWebp), Path("work", TextFile)}

NoFile == -1

\* Sizes in bytes: of each image file, and of the WebP the encoder makes of it.
SourceSize(name) ==
    CASE name = ImageFiles[1] -> 10
      [] name = ImageFiles[2] -> 20
      [] name = ImageFiles[3] -> 40
      [] OTHER -> 80

EncodedSize(name) ==
    CASE name = ImageFiles[1] -> 1
      [] name = ImageFiles[2] -> 2
      [] name = ImageFiles[3] -> 4
      [] OTHER -> 8

\* The working directory holding the first n image files.
InitialFiles(n) ==
    [p \in AllPaths |->
        IF p \in Sources
        THEN IF \E k \in 1..n : k \in DOMAIN ImageFiles /\ p.name = ImageFiles[k]
             THEN SourceSize(p.name) ELSE NoFile
        ELSE IF p \in {Path("work", HiddenFile), Path("work", OldWebp), Path("work", TextFile)}
             THEN 5 ELSE NoFile]

\* ------------------------------------------------------------------ state
VARIABLES
    args,         \* os.Args[1:]
    cfg,          \* Config: WorkDir, Quality, Skip, Replace
    hasFfmpeg,    \* exec.LookPath("ffmpeg") finds the encoder
    stdin,        \* the characters waiting on standard input
    numCPU,       \* runtime.NumCPU()
    statFails,    \* the paths whose os.Stat fails although the file is listed
    files,        \* the file system: path -> size, or NoFile
    files0,       \* the file system when the program started (history)
    outDir,       \* WorkDir/compressed exists
    opc,          \* where run is
    ret,          \* "none" (running), "argError" (parseArgs failed), run's "nil" or "error"
    jobs,         \* run's job list
    spawned,      \* workers started by run's first loop
    sent,         \* jobs sent by run's second loop
    jobCh,        \* the buffered channel's contents
    closed,       \* close(jobCh) was called
    wg,           \* the WaitGroup's counter
    wpc,          \* where each worker is
    wjob,         \* each worker's loop variable job
    werr,         \* each worker's err from convert
    ffmpegMutex,  \* the worker holding the mutex, 0 when it is free
    stats,        \* the shared Stats
    printed,      \* the copy of Stats handed to printStats, NotPrinted before
    hist,         \* history: what happened to each image file (not program state)
    results,      \* the first program's results channel: its contents
    resClosed,    \* close(results) was called
    closer,       \* where the first program's goroutine of wg.Wait and close(results) is
    wresult,      \* each worker's ConversionResult, in the first program
    images        \* the first program's list of image paths, from scanImages

vars == << images, results, resClosed, closer, wresult, args, cfg, files0, hasFfmpeg, stdin, numCPU, statFails, files, outDir, opc, ret, jobs,
           spawned, sent, jobCh, closed, wg, wpc, wjob, werr, ffmpegMutex, stats,
           printed, hist >>

NoJob == [Source |-> Path("none", <<>>), Dest |-> Path("none", <<>>)]

\* The zero ConversionResult.
NoResult == [SourcePath |-> Path("none", <<>>), DestPath |-> Path("none", <<>>),
             OrigSize |-> 0, NewSize |-> 0, Success |-> FALSE]

ZeroStats == [Total |-> 0, Converted |-> 0, Failed |-> 0, SizeBefore |-> 0, SizeAfter |-> 0]

NotPrinted == [Total |-> -1, Converted |-> -1, Failed |-> -1, SizeBefore |-> -1, SizeAfter |-> -1]

\* What the user may have typed: yes, yes in capitals and with blanks, no, an empty
\* line, another word, a line cut by end of input, nothing.
Answers == { <<"s", "\n">>, <<" ", "S", "I", "M", "\r", "\n">>, <<"n", "\n">>, <<"\n">>,
             <<"s", "s", "\n">>, <<"s">>, <<>> }

ZeroHist == [claims    |-> [n \in ImageNames |-> 0],
             converted |-> [n \in ImageNames |-> 0],
             failed    |-> [n \in ImageNames |-> 0],
             encStarts |-> [n \in ImageNames |-> 0],
             encOk     |-> {},
             encFailed |-> {},
             rmTried   |-> {},
             rmFailed  |-> {},
             answer    |-> "none",
             dirRead   |-> FALSE,
             steps     |-> [n \in ImageNames |-> <<>>],
             before    |-> [n \in ImageNames |-> 0],
             after     |-> [n \in ImageNames |-> 0],
             resSent   |-> [n \in ImageNames |-> 0],
             resRecv   |-> [n \in ImageNames |-> 0],
             enqueued  |-> <<>>]

\* ------------------------------------------------------------- parseArgs
\* The command line's words, as character sequences.
ArgQ == <<"-", "q">>
ArgQuality == <<"-", "q", "u", "a", "l", "i", "t", "y">>
ArgS == <<"-", "s">>
ArgSkip == <<"-", "s", "k", "i", "p">>
ArgR == <<"-", "r">>
ArgReplace == <<"-", "r", "e", "p", "l", "a", "c", "e">>

\* Directory arguments: the working directory, which exists; a name that is not
\* there; and TextFile, which is there and is no directory.
WorkDirArg == <<"w">>
MissingDir == <<"x">>

DigitChars == <<"0", "1", "2", "3", "4", "5", "6", "7", "8", "9">>

IsDigit(c) == \E d \in DOMAIN DigitChars : DigitChars[d] = c

DigitValue(c) == (CHOOSE d \in DOMAIN DigitChars : DigitChars[d] = c) - 1

RECURSIVE DigitsValue(_, _)
DigitsValue(s, acc) ==
    IF s = <<>> THEN acc ELSE DigitsValue(Tail(s), acc * 10 + DigitValue(Head(s)))

\* strconv.Atoi: an optional sign and one digit or more; anything else is an error.
Atoi(s) ==
    LET signed == s # <<>> /\ Head(s) \in {"+", "-"}
        digits == IF signed THEN Tail(s) ELSE s
    IN  IF digits = <<>> \/ \E k \in DOMAIN digits : ~IsDigit(digits[k])
        THEN [ok |-> FALSE, v |-> 0]
        ELSE [ok |-> TRUE,
              v |-> IF signed /\ Head(s) = "-" THEN 0 - DigitsValue(digits, 0)
                    ELSE DigitsValue(digits, 0)]

QualityOkNoUpperBound(v) == v >= 1

\* v < 1 || v > 100 is rejected.
QualityOk(v) == v >= 1 /\ v <= 100

ZeroConfig == [WorkDir |-> "", Quality |-> 0, Skip |-> FALSE, Replace |-> FALSE]

\* parseArgs' loop over the arguments from index i: the flags set c, the other words
\* go to rest; a quality flag without a value, or with a value that is no integer of
\* 1..100, ends it with an error.
RECURSIVE ParseFlags(_, _, _, _)
ParseFlags(as, i, c, rest) ==
    IF i > Len(as) THEN [err |-> FALSE, cfg |-> c, rest |-> rest]
    ELSE IF as[i] \in {ArgQ, ArgQuality}
         THEN IF i + 1 > Len(as) THEN [err |-> TRUE, cfg |-> c, rest |-> rest]
              ELSE LET a == Atoi(as[i + 1])
                   IN  IF ~a.ok \/ ~QualityOk(a.v)
                       THEN [err |-> TRUE, cfg |-> c, rest |-> rest]
                       ELSE ParseFlags(as, i + 2, [c EXCEPT !.Quality = a.v], rest)
    ELSE IF as[i] \in {ArgS, ArgSkip}
         THEN ParseFlags(as, i + 1, [c EXCEPT !.Skip = TRUE], rest)
    ELSE IF as[i] \in {ArgReplace, ArgR}
         THEN ParseFlags(as, i + 1, [c EXCEPT !.Replace = TRUE], rest)
    ELSE ParseFlags(as, i + 1, c, Append(rest, as[i]))

Flags(as) == ParseFlags(as, 1, [ZeroConfig EXCEPT !.Quality = 80], <<>>)

\* os.Stat(abs) succeeds and info.IsDir().
IsDirectory(word) == word = WorkDirArg

\* The command lines: four that parse, one for each pair of Skip and Replace, and
\* the ones parseArgs rejects.
ArgLists ==
    { <<WorkDirArg>>,
      <<ArgS, WorkDirArg>>,
      <<WorkDirArg, ArgReplace>>,
      <<ArgQuality, <<"1", "0", "0">>, ArgR, ArgSkip>>,
      <<ArgQ, <<"0">>, MissingDir>>,
      <<WorkDirArg, ArgQuality, <<"1", "0", "1">>, ArgS>>,
      <<ArgQ, <<"-", "5">>, WorkDirArg>>,
      <<ArgS, ArgQ, <<"8", "x">>, WorkDirArg>>,
      <<WorkDirArg, ArgQ>>,
      <<ArgQ, <<"5", "0">>, MissingDir>>,
      <<MissingDir, ArgS>>,
      <<TextFile>> }

Init ==
    /\ args \in ArgLists
    /\ cfg = ZeroConfig
    /\ hasFfmpeg \in BOOLEAN
    /\ stdin \in IF Flags(args).err \/ Flags(args).cfg.Skip THEN {<<>>} ELSE Answers
    /\ numCPU \in 1..MaxWorkers
    /\ statFails \in {{}, {Path("work", ImageFiles[1])},
                      {Path(IF Flags(args).cfg.Replace THEN "work" ELSE "out",
                            DestName(ImageFiles[1]))}}
    /\ \E n \in 0..MaxFiles : files = InitialFiles(n)
    /\ files0 = files
    /\ outDir = FALSE
    /\ opc = "parseArgs"
    /\ ret = "none"
    /\ jobs = <<>>
    /\ spawned = 0
    /\ sent = 0
    /\ jobCh = <<>>
    /\ closed = FALSE
    /\ wg = 0
    /\ wpc = [w \in Workers |-> "idle"]
    /\ wjob = [w \in Workers |-> NoJob]
    /\ werr = [w \in Workers |-> FALSE]
    /\ ffmpegMutex = 0
    /\ stats = ZeroStats
    /\ printed = NotPrinted
    /\ hist = ZeroHist
    /\ results = <<>>
    /\ resClosed = FALSE
    /\ closer = "idle"
    /\ wresult = [w \in Workers |-> NoResult]
    /\ images = <<>>

\* main's call of parseArgs: the flags, then the directory, which is the first other
\* word (made absolute, then os.Stat must find a directory) or os.Getwd().
ParseArgs ==
    /\ opc = "parseArgs"
    /\ LET p == Flags(args)
       IN  \E cwdOk \in BOOLEAN :
             IF p.err
             THEN /\ opc' = "exit" /\ ret' = "argError"
                  /\ cfg' = cfg /\ hist' = hist
             ELSE IF ~cwdOk
             THEN /\ opc' = "exit" /\ ret' = "argError"
                  /\ cfg' = cfg /\ hist' = hist
             ELSE IF Len(p.rest) > 0
             THEN /\ hist' = [hist EXCEPT !.dirRead = TRUE]
                  /\ IF IsDirectory(p.rest[1])
                     THEN /\ opc' = "hasCommand" /\ ret' = ret
                          /\ cfg' = [p.cfg EXCEPT !.WorkDir = "work"]
                     ELSE /\ opc' = "exit" /\ ret' = "argError"
                          /\ cfg' = cfg
             ELSE /\ opc' = "hasCommand" /\ ret' = ret
                  /\ cfg' = [p.cfg EXCEPT !.WorkDir = "work"]
                  /\ hist' = hist
    /\ UNCHANGED << images, results, resClosed, closer, wresult, args, files0, hasFfmpeg, stdin, numCPU, statFails, files, outDir, jobs,
                    spawned, sent, jobCh, closed, wg, wpc, wjob, werr, ffmpegMutex, stats,
                    printed >>

\* ----------------------------------------------------------- run (orchestrator)
\* A run that goes on without the encoder.
HasCommandSkipped ==
    /\ opc = "hasCommand"
    /\ opc' = "scan"
    /\ UNCHANGED << images, results, resClosed, closer, wresult, args, cfg, files0, hasFfmpeg, stdin, numCPU, statFails, files, outDir, jobs,
                    spawned, sent, jobCh, closed, wg, wpc, wjob, werr, ffmpegMutex, stats,
                    printed, hist, ret >>

\* hasCommand("ffmpeg"), run's first check.
HasCommand ==
    /\ opc = "hasCommand"
    /\ IF hasFfmpeg
       THEN opc' = "scan" /\ ret' = ret
       ELSE opc' = "exit" /\ ret' = "error"
    /\ UNCHANGED << images, results, resClosed, closer, wresult, args, cfg, files0, hasFfmpeg, stdin, numCPU, statFails, files, outDir, jobs, spawned,
                    sent, jobCh, closed, wg, wpc, wjob, werr, ffmpegMutex, stats, printed,
                    hist >>

\* os.ReadDir(cfg.WorkDir): the names present, sorted, each with its IsDir.
DirEntries ==
    LET present(name) ==
            \/ name = SubDir
            \/ name = OutputDirName /\ outDir
            \/ Path("work", name) \in AllPaths /\ files[Path("work", name)] # NoFile
        listed == SelectSeq(DirOrder, present)
    IN  [k \in DOMAIN listed |->
            [name |-> listed[k], isDir |-> listed[k] \in {SubDir, OutputDirName}]]

\* The destination run gives a source name.
DestPath(name, replace) == Path(IF replace THEN "work" ELSE "out", DestName(name))

\* run's loop over the entries: skip directories, dotfiles and non-images.
RECURSIVE BuildJobs(_, _)
BuildJobs(entries, replace) ==
    IF entries = <<>> THEN <<>>
    ELSE LET e == Head(entries)
             rest == BuildJobs(Tail(entries), replace)
         IN  IF e.isDir \/ HasDotPrefix(e.name) \/ ~isImage(e.name)
             THEN rest
             ELSE << [Source |-> Path("work", e.name), Dest |-> DestPath(e.name, replace)] >>
                  \o rest

\* Where run goes once the job list is known to be non-empty.
AfterScan == IF ~cfg.Replace THEN "mkdir" ELSE IF ~cfg.Skip THEN "confirm" ELSE "spawn"

NoJobsNever(js) == FALSE

\* len(jobs) == 0: "Nenhuma imagem encontrada".
NoJobs(js) == Len(js) = 0

\* os.ReadDir, the job list, and the "no eligible file" check.
ScanDir ==
    /\ opc = "scan"
    /\ \E readOk \in BOOLEAN :
         IF ~readOk
         THEN opc' = "exit" /\ ret' = "error" /\ jobs' = jobs
         ELSE LET js == BuildJobs(DirEntries, cfg.Replace)
              IN  IF NoJobs(js)
                  THEN opc' = "exit" /\ ret' = "error" /\ jobs' = jobs
                  ELSE opc' = AfterScan /\ ret' = ret /\ jobs' = js
    /\ hist' = [hist EXCEPT !.dirRead = TRUE]
    /\ UNCHANGED << images, results, resClosed, closer, wresult, args, cfg, files0, hasFfmpeg, stdin, numCPU, statFails, files, outDir,
                    spawned, sent, jobCh, closed, wg, wpc, wjob, werr, ffmpegMutex, stats,
                    printed >>

\* os.MkdirAll(WorkDir/compressed), when not replacing.
MkdirOutput ==
    /\ opc = "mkdir"
    /\ \E mkOk \in BOOLEAN :
         IF mkOk
         THEN outDir' = TRUE /\ ret' = ret
              /\ opc' = IF ~cfg.Skip THEN "confirm" ELSE "spawn"
         ELSE outDir' = outDir /\ ret' = "error" /\ opc' = "exit"
    /\ UNCHANGED << images, results, resClosed, closer, wresult, args, cfg, files0, hasFfmpeg, stdin, numCPU, statFails, files, jobs, spawned, sent,
                    jobCh, closed, wg, wpc, wjob, werr, ffmpegMutex, stats, printed, hist >>

\* reader.ReadString('\n'): the line up to and with the first newline; ok is FALSE
\* when the input ends before a newline.
Newlines(input) == {k \in DOMAIN input : input[k] = "\n"}

ReadLine(input) ==
    IF Newlines(input) = {}
    THEN [ok |-> FALSE, line |-> input, rest |-> <<>>]
    ELSE LET nl == CHOOSE k \in Newlines(input) : \A j \in Newlines(input) : k <= j
         IN  [ok |-> TRUE, line |-> SubSeq(input, 1, nl),
              rest |-> SubSeq(input, nl + 1, Len(input))]

\* confirmExecution: true only for "s" or "sim", in any case, blanks trimmed.
confirmExecution(input) ==
    LET r == ReadLine(input)
    IN  /\ r.ok
        /\ TrimSpace(ToLower(r.line)) \in { <<"s">>, <<"s", "i", "m">> }

\* The preview and the prompt.
Confirm ==
    /\ opc = "confirm"
    /\ stdin' = ReadLine(stdin).rest
    /\ IF confirmExecution(stdin)
       THEN opc' = "spawn" /\ ret' = ret /\ hist' = [hist EXCEPT !.answer = "yes"]
       ELSE opc' = "exit" /\ ret' = "nil" /\ hist' = [hist EXCEPT !.answer = "no"]
    /\ UNCHANGED << images, results, resClosed, closer, wresult, args, cfg, files0, hasFfmpeg, numCPU, statFails, files, outDir, jobs, spawned,
                    sent, jobCh, closed, wg, wpc, wjob, werr, ffmpegMutex, stats, printed >>

\* One turn of run's first loop: wg.Add(1); go worker(...).
Spawn ==
    /\ opc = "spawn"
    /\ spawned < numCPU
    /\ wg' = wg + 1
    /\ wpc' = [wpc EXCEPT ![spawned + 1] = "range"]
    /\ spawned' = spawned + 1
    /\ opc' = IF spawned + 1 = numCPU THEN "send" ELSE "spawn"
    /\ UNCHANGED << images, results, resClosed, closer, wresult, args, cfg, files0, hasFfmpeg, stdin, numCPU, statFails, files, outDir, ret, jobs,
                    sent, jobCh, closed, wjob, werr, ffmpegMutex, stats, printed, hist >>

\* A channel with room for one job only.
ChanCapOne == IF jobs = <<>> THEN 0 ELSE 1

\* make(chan Job, len(jobs))
ChanCap == Len(jobs)

AfterSendCloses == "close"

\* The loop over jobs goes on to close(jobCh) after the last job.
AfterSend == IF sent + 1 = Len(jobs) THEN "close" ELSE "send"

\* One turn of run's second loop: jobCh <- j, which blocks while the buffer is full.
Send ==
    /\ opc = "send"
    /\ sent < Len(jobs)
    /\ Len(jobCh) < ChanCap
    /\ jobCh' = Append(jobCh, jobs[sent + 1])
    /\ sent' = sent + 1
    /\ opc' = AfterSend
    /\ UNCHANGED << images, results, resClosed, closer, wresult, args, cfg, files0, hasFfmpeg, stdin, numCPU, statFails, files, outDir, ret, jobs,
                    spawned, closed, wg, wpc, wjob, werr, ffmpegMutex, stats, printed, hist >>

\* A run that forgets to close the channel.
CloseForgotten ==
    /\ opc = "close"
    /\ opc' = "wait"
    /\ UNCHANGED << images, results, resClosed, closer, wresult, args, cfg, files0, hasFfmpeg, stdin, numCPU, statFails, files, outDir, ret,
                    jobs, spawned, sent, jobCh, wg, wpc, wjob, werr, ffmpegMutex, stats,
                    printed, hist, closed >>

\* close(jobCh)
Close ==
    /\ opc = "close"
    /\ closed' = TRUE
    /\ opc' = "wait"
    /\ UNCHANGED << images, results, resClosed, closer, wresult, args, cfg, files0, hasFfmpeg, stdin, numCPU, statFails, files, outDir, ret, jobs,
                    spawned, sent, jobCh, wg, wpc, wjob, werr, ffmpegMutex, stats, printed,
                    hist >>

WaitDoesNotWait == TRUE

\* wg.Wait() returns when the counter is zero.
WaitReady == wg = 0

Wait ==
    /\ opc = "wait"
    /\ WaitReady
    /\ opc' = "print"
    /\ UNCHANGED << images, results, resClosed, closer, wresult, args, cfg, files0, hasFfmpeg, stdin, numCPU, statFails, files, outDir, ret, jobs,
                    spawned, sent, jobCh, closed, wg, wpc, wjob, werr, ffmpegMutex, stats,
                    printed, hist >>

\* printStats(stats), which copies Stats, then return nil.
PrintStats ==
    /\ opc = "print"
    /\ printed' = stats
    /\ opc' = "exit"
    /\ ret' = "nil"
    /\ UNCHANGED << images, results, resClosed, closer, wresult, args, cfg, files0, hasFfmpeg, stdin, numCPU, statFails, files, outDir, jobs, spawned,
                    sent, jobCh, closed, wg, wpc, wjob, werr, ffmpegMutex, stats, hist >>

\* main's exit code: os.Exit(1) when run returns an error, 0 otherwise.
ExitCode == IF ret \in {"argError", "error"} THEN 1 ELSE 0

\* ----------------------------------------------------------------- worker
\* os.Stat(p): the size, or an error (NoFile) when the file is missing or unreadable.
Stat(fs, p) == IF fs[p] # NoFile /\ p \notin statFails THEN fs[p] ELSE NoFile

\* Receiving from the channel takes the head away.
DequeueKeepsHead(ch) == ch

Dequeue(ch) == Tail(ch)

\* A range loop that ends as soon as it finds the channel empty.
RangeExitsWhenEmpty == Len(jobCh) = 0

\* for job := range jobs: take the head of the channel; leave the loop, and run the
\* deferred wg.Done(), when the channel is closed and empty; block otherwise.
RangeExits == closed /\ Len(jobCh) = 0

Receive(w) ==
    /\ wpc[w] = "range"
    /\ \/ /\ Len(jobCh) > 0
          /\ wjob' = [wjob EXCEPT ![w] = Head(jobCh)]
          /\ jobCh' = Dequeue(jobCh)
          /\ wpc' = [wpc EXCEPT ![w] = "addTotal"]
          /\ hist' = [hist EXCEPT !.claims[Head(jobCh).Source.name] = @ + 1]
          /\ wg' = wg
       \/ /\ Len(jobCh) = 0
          /\ RangeExits
          /\ wpc' = [wpc EXCEPT ![w] = "returned"]
          /\ wg' = wg - 1
          /\ UNCHANGED << wjob, jobCh, hist >>
    /\ UNCHANGED << images, results, resClosed, closer, wresult, args, cfg, files0, hasFfmpeg, stdin, numCPU, statFails, files, outDir, opc, ret, jobs,
                    spawned, sent, closed, werr, ffmpegMutex, stats, printed >>

\* A worker that goes on without counting the job.
AddTotalSkipped(w) ==
    /\ wpc[w] = "addTotal"
    /\ wpc' = [wpc EXCEPT ![w] = "statSource"]
    /\ UNCHANGED << images, results, resClosed, closer, wresult, args, cfg, files0, hasFfmpeg, stdin, numCPU, statFails, files, outDir, opc,
                    ret, jobs, spawned, sent, jobCh, closed, wg, wjob, werr, ffmpegMutex,
                    printed, hist, stats >>

\* atomic.AddInt64(&stats.Total, 1)
AddTotal(w) ==
    /\ wpc[w] = "addTotal"
    /\ stats' = [stats EXCEPT !.Total = @ + 1]
    /\ wpc' = [wpc EXCEPT ![w] = "statSource"]
    /\ UNCHANGED << images, results, resClosed, closer, wresult, args, cfg, files0, hasFfmpeg, stdin, numCPU, statFails, files, outDir, opc, ret, jobs,
                    spawned, sent, jobCh, closed, wg, wjob, werr, ffmpegMutex, printed, hist >>

AfterStatSourceFailsJob(size) == IF size = NoFile THEN "addFailed" ELSE "lock"

\* Whatever os.Stat(job.Source) returned, the worker goes on to convert.
AfterStatSource(size) == "lock"

\* os.Stat(job.Source), adding its size to SizeBefore when it succeeds.
StatSource(w) ==
    /\ wpc[w] = "statSource"
    /\ LET size == Stat(files, wjob[w].Source)
           n == wjob[w].Source.name
       IN  /\ stats' = IF size # NoFile THEN [stats EXCEPT !.SizeBefore = @ + size] ELSE stats
           /\ hist' = [hist EXCEPT !.steps[n] = Append(@, "statSource"),
                                   !.before[n] = IF size # NoFile THEN @ + size ELSE @]
           /\ wpc' = [wpc EXCEPT ![w] = AfterStatSource(size)]
    /\ UNCHANGED << images, results, resClosed, closer, wresult, args, cfg, files0, hasFfmpeg, stdin, numCPU, statFails, files, outDir, opc,
                    ret, jobs, spawned, sent, jobCh, closed, wg, wjob, werr, ffmpegMutex,
                    printed >>

LockAlwaysFree == TRUE

\* ffmpegMutex.Lock() can return when nobody holds the mutex.
LockFree == ffmpegMutex = 0

\* convert: ffmpegMutex.Lock(), then cmd.Run() starts the encoder.
Lock(w) ==
    /\ wpc[w] = "lock"
    /\ LockFree
    /\ ffmpegMutex' = w
    /\ wpc' = [wpc EXCEPT ![w] = "cmdRun"]
    /\ hist' = [hist EXCEPT !.encStarts[wjob[w].Source.name] = @ + 1]
    /\ UNCHANGED << images, results, resClosed, closer, wresult, args, cfg, files0, hasFfmpeg, stdin, numCPU, statFails, files, outDir, opc, ret, jobs,
                    spawned, sent, jobCh, closed, wg, wjob, werr, stats, printed >>

\* What a successful encoder run leaves: the destination, overwritten (-y).
EncoderWrite(fs, job) == [fs EXCEPT ![job.Dest] = EncodedSize(job.Source.name)]

\* cmd.Run() returns: the encoder wrote the destination and exited 0, or it failed
\* (it always fails when the source is missing).
CmdRun(w) ==
    /\ wpc[w] = "cmdRun"
    /\ \E ok \in BOOLEAN :
         /\ ok => files[wjob[w].Source] # NoFile
         /\ files' = IF ok THEN EncoderWrite(files, wjob[w]) ELSE files
         /\ werr' = [werr EXCEPT ![w] = ~ok]
         /\ hist' = IF ok
                    THEN [hist EXCEPT !.encOk = @ \cup {wjob[w].Source.name},
                                      !.steps[wjob[w].Source.name] = Append(@, "encodeOk")]
                    ELSE [hist EXCEPT !.encFailed = @ \cup {wjob[w].Source.name},
                                      !.steps[wjob[w].Source.name] = Append(@, "encodeFailed")]
    /\ wpc' = [wpc EXCEPT ![w] = "unlock"]
    /\ UNCHANGED << images, results, resClosed, closer, wresult, args, cfg, files0, hasFfmpeg, stdin, numCPU, statFails, outDir, opc, ret, jobs,
                    spawned, sent, jobCh, closed, wg, wjob, ffmpegMutex, stats, printed >>

\* if err := convert(...); err != nil { ... Failed ... continue }, else on to the Stat.
AfterConvertIgnoresErr(err) == "statDest"

AfterConvertRemovesFirst(err) == IF err THEN "addFailed" ELSE "remove"

AfterConvert(err) == IF err THEN "addFailed" ELSE "statDest"

\* An Unlock that is not deferred: the failure path returns with the mutex held.
UnlockOnlyOnSuccess(w) ==
    /\ wpc[w] = "unlock"
    /\ ffmpegMutex' = IF werr[w] THEN ffmpegMutex ELSE 0
    /\ wpc' = [wpc EXCEPT ![w] = AfterConvert(werr[w])]
    /\ UNCHANGED << images, results, resClosed, closer, wresult, args, cfg, files0, hasFfmpeg, stdin, numCPU, statFails, files, outDir, opc, ret, jobs,
                    spawned, sent, jobCh, closed, wg, wjob, werr, stats, printed, hist >>

\* convert returns: the deferred ffmpegMutex.Unlock(), then the worker tests err.
Unlock(w) ==
    /\ wpc[w] = "unlock"
    /\ ffmpegMutex' = 0
    /\ wpc' = [wpc EXCEPT ![w] = AfterConvert(werr[w])]
    /\ UNCHANGED << images, results, resClosed, closer, wresult, args, cfg, files0, hasFfmpeg, stdin, numCPU, statFails, files, outDir, opc, ret, jobs,
                    spawned, sent, jobCh, closed, wg, wjob, werr, stats, printed, hist >>

\* A failure that is not counted.
AddFailedNoCount(w) ==
    /\ wpc[w] = "addFailed"
    /\ hist' = [hist EXCEPT !.failed[wjob[w].Source.name] = @ + 1]
    /\ wpc' = [wpc EXCEPT ![w] = "range"]
    /\ wjob' = [wjob EXCEPT ![w] = NoJob]
    /\ werr' = [werr EXCEPT ![w] = FALSE]
    /\ UNCHANGED << images, results, resClosed, closer, wresult, args, cfg, files0, hasFfmpeg, stdin, numCPU, statFails, files, outDir, opc, ret, jobs,
                    spawned, sent, jobCh, closed, wg, ffmpegMutex, printed, stats >>

\* A failure that ends the worker (return, with its deferred wg.Done, for continue).
AddFailedThenReturn(w) ==
    /\ wpc[w] = "addFailed"
    /\ stats' = [stats EXCEPT !.Failed = @ + 1]
    /\ hist' = [hist EXCEPT !.failed[wjob[w].Source.name] = @ + 1]
    /\ wpc' = [wpc EXCEPT ![w] = "returned"]
    /\ wg' = wg - 1
    /\ wjob' = [wjob EXCEPT ![w] = NoJob]
    /\ werr' = [werr EXCEPT ![w] = FALSE]
    /\ UNCHANGED << images, results, resClosed, closer, wresult, args, cfg, files0, hasFfmpeg, stdin, numCPU, statFails, files, outDir, opc,
                    ret, jobs, spawned, sent, jobCh, closed, ffmpegMutex, printed >>

\* err != nil: atomic.AddInt64(&stats.Failed, 1); continue.
AddFailed(w) ==
    /\ wpc[w] = "addFailed"
    /\ stats' = [stats EXCEPT !.Failed = @ + 1]
    /\ hist' = [hist EXCEPT !.failed[wjob[w].Source.name] = @ + 1,
                            !.steps[wjob[w].Source.name] = Append(@, "failed")]
    /\ wpc' = [wpc EXCEPT ![w] = "range"]
    /\ wjob' = [wjob EXCEPT ![w] = NoJob]
    /\ werr' = [werr EXCEPT ![w] = FALSE]
    /\ UNCHANGED << images, results, resClosed, closer, wresult, args, cfg, files0, hasFfmpeg, stdin, numCPU, statFails, files, outDir, opc, ret, jobs,
                    spawned, sent, jobCh, closed, wg, ffmpegMutex, printed >>

\* os.Stat(job.Dest), adding its size to SizeAfter when it succeeds.
StatDest(w) ==
    /\ wpc[w] = "statDest"
    /\ LET size == Stat(files, wjob[w].Dest)
           n == wjob[w].Source.name
       IN  /\ stats' = IF size # NoFile THEN [stats EXCEPT !.SizeAfter = @ + size] ELSE stats
           /\ hist' = [hist EXCEPT !.steps[n] = Append(@, "statDest"),
                                   !.after[n] = IF size # NoFile THEN @ + size ELSE @]
    /\ wpc' = [wpc EXCEPT ![w] = IF cfg.Replace THEN "remove" ELSE "addConverted"]
    /\ UNCHANGED << images, results, resClosed, closer, wresult, args, cfg, files0, hasFfmpeg, stdin, numCPU, statFails, files, outDir, opc,
                    ret, jobs, spawned, sent, jobCh, closed, wg, wjob, werr, ffmpegMutex,
                    printed >>

\* cfg.Replace: _ = os.Remove(job.Source); the error, if any, is dropped.
Remove(w) ==
    /\ wpc[w] = "remove"
    /\ \E rmOk \in BOOLEAN :
         /\ files' = IF rmOk THEN [files EXCEPT ![wjob[w].Source] = NoFile] ELSE files
         /\ hist' = [hist EXCEPT !.rmTried = @ \cup {wjob[w].Source.name},
                                 !.rmFailed = IF rmOk THEN @ ELSE @ \cup {wjob[w].Source.name},
                                 !.steps[wjob[w].Source.name] = Append(@, "remove")]
    /\ wpc' = [wpc EXCEPT ![w] = "addConverted"]
    /\ UNCHANGED << images, results, resClosed, closer, wresult, args, cfg, files0, hasFfmpeg, stdin, numCPU, statFails, outDir, opc, ret, jobs,
                    spawned, sent, jobCh, closed, wg, wjob, werr, ffmpegMutex, stats, printed >>

\* The completion line, then atomic.AddInt64(&stats.Converted, 1).
AddConverted(w) ==
    /\ wpc[w] = "addConverted"
    /\ stats' = [stats EXCEPT !.Converted = @ + 1]
    /\ hist' = [hist EXCEPT !.converted[wjob[w].Source.name] = @ + 1,
                            !.steps[wjob[w].Source.name] = Append(@, "report")]
    /\ wpc' = [wpc EXCEPT ![w] = "range"]
    /\ wjob' = [wjob EXCEPT ![w] = NoJob]
    /\ UNCHANGED << images, results, resClosed, closer, wresult, args, cfg, files0, hasFfmpeg, stdin, numCPU, statFails, files, outDir, opc, ret, jobs,
                    spawned, sent, jobCh, closed, wg, werr, ffmpegMutex, printed >>

Worker(w) ==
    \/ Receive(w) \/ AddTotal(w) \/ StatSource(w) \/ Lock(w) \/ CmdRun(w) \/ Unlock(w)
    \/ AddFailed(w) \/ StatDest(w) \/ Remove(w) \/ AddConverted(w)

Run ==
    \/ ParseArgs \/ HasCommand \/ ScanDir \/ MkdirOutput \/ Confirm \/ Spawn \/ Send \/ Close \/ Wait
    \/ PrintStats

Next == Run \/ \E w \in Workers : Worker(w)

Spec == Init /\ [][Next]_vars

\* ================================================================= claims
\* wg.Wait() has returned in run.
PoolDone == opc = "print" \/ printed # NotPrinted

\* The jobs run has sent on the channel.
Enqueued == {jobs[k] : k \in 1..sent}

EnqueuedNames == {j.Source.name : j \in Enqueued}

Outcomes(n) == hist.converted[n] + hist.failed[n]

Returned(w) == wpc[w] \in {"idle", "returned"}

\* C1: once wg.Wait has returned, Converted + Failed = K and Total = K, K the number
\* of jobs (K >= 1), whatever the encoder outcomes, the pool width and the interleaving.
C1_CountsAddUpAfterPool ==
    PoolDone =>
        /\ Len(jobs) >= 1
        /\ stats.Converted + stats.Failed = Len(jobs)
        /\ stats.Total = Len(jobs)

\* C1 witness: a pool of two workers ended with one success and one failure.
C1_Witness ==
    PoolDone /\ numCPU >= 2 /\ stats.Converted >= 1 /\ stats.Failed >= 1

\* C2: at most one worker is inside cmd.Run at any instant, and a worker inside
\* cmd.Run holds ffmpegMutex.
InEncoder == {w \in Workers : wpc[w] = "cmdRun"}

C2_OneEncoderAtATime ==
    /\ Cardinality(InEncoder) <= 1
    /\ \A w \in InEncoder : ffmpegMutex = w

\* C2 witness: one worker is inside cmd.Run while another waits for the mutex.
C2_Witness ==
    \E w, v \in Workers : w # v /\ wpc[w] = "cmdRun" /\ wpc[v] = "lock"

\* C3: run reads Stats for printStats only after every worker has returned, and no
\* worker changes Stats after that copy: the printed copy stays equal to Stats.
C3_PrintAfterAllWorkersReturned ==
    /\ PoolDone => \A w \in Workers : Returned(w)
    /\ printed # NotPrinted => printed = stats

\* C3 witness: the summary was printed for a pool of two workers that both worked.
C3_Witness ==
    /\ printed # NotPrinted
    /\ spawned >= 2
    /\ stats.Total >= 2

\* C4: every enqueued job is, at every instant, in exactly one place: in the channel,
\* in the hands of exactly one worker, or done with exactly one outcome; a job is
\* claimed at most once, nothing has an outcome without being enqueued and claimed,
\* and once the pool is done every job of the list has been claimed once and has
\* one outcome, the counters being the number of those outcomes.
InChannel(j) == Cardinality({k \in DOMAIN jobCh : jobCh[k] = j})

Holders(j) == {w \in Workers : wjob[w] = j}

C4_EachJobExactlyOnce ==
    /\ \A j \in Enqueued :
         /\ InChannel(j) + Cardinality(Holders(j)) + Outcomes(j.Source.name) = 1
         /\ hist.claims[j.Source.name] = Cardinality(Holders(j)) + Outcomes(j.Source.name)
    /\ \A n \in ImageNames \ EnqueuedNames : hist.claims[n] = 0 /\ Outcomes(n) = 0
    /\ \A w \in Workers : wjob[w] # NoJob => wjob[w] \in Enqueued
    /\ PoolDone =>
         /\ Cardinality(Enqueued) = Len(jobs)
         /\ \A j \in Enqueued : hist.claims[j.Source.name] = 1 /\ Outcomes(j.Source.name) = 1
         /\ stats.Converted = Cardinality({n \in ImageNames : hist.converted[n] = 1})
         /\ stats.Failed = Cardinality({n \in ImageNames : hist.failed[n] = 1})

\* C4 witness: two workers each hold a different job at the same time.
C4_Witness ==
    \E w, v \in Workers :
        /\ w # v
        /\ wjob[w] # NoJob
        /\ wjob[v] # NoJob
        /\ wjob[w] # wjob[v]

\* C5 as claimed: in in-place mode, after the pool, a job's source is deleted if and
\* only if its encoder invocation succeeded, and a failed job's source is untouched.
C5_DeletedIffEncoded ==
    (PoolDone /\ cfg.Replace) =>
        \A j \in Enqueued :
            /\ files[j.Source] = NoFile <=> j.Source.name \in hist.encOk
            /\ j.Source.name \in hist.encFailed => files[j.Source] = files0[j.Source]

\* C5 amended: in in-place mode os.Remove is called on a job's source if and only if
\* its encoder invocation succeeded; after the pool the source is gone if and only if
\* the invocation succeeded and that os.Remove did not fail (its error is dropped and
\* the job still counts as converted); at every instant the source of a job whose
\* invocation has not succeeded is as it was at the start.
C5_RemoveTriedIffEncoded ==
    cfg.Replace =>
        /\ \A j \in Enqueued :
             j.Source.name \notin hist.encOk =>
                 /\ files[j.Source] = files0[j.Source]
                 /\ j.Source.name \notin hist.rmTried
        /\ PoolDone =>
             \A j \in Enqueued :
                 /\ j.Source.name \in hist.rmTried <=> j.Source.name \in hist.encOk
                 /\ files[j.Source] = NoFile <=>
                        (j.Source.name \in hist.encOk /\ j.Source.name \notin hist.rmFailed)

\* C5 witness: in-place mode ended with one source converted and deleted, and one
\* source whose conversion failed still in place.
C5_Witness ==
    /\ PoolDone
    /\ cfg.Replace
    /\ \E j \in Enqueued : j.Source.name \in hist.encOk /\ files[j.Source] = NoFile
    /\ \E j \in Enqueued : j.Source.name \in hist.encFailed /\ files[j.Source] # NoFile

\* What one worker alone computes on the job list when every invocation succeeds:
\* the jobs one after the other, each through the worker's steps.
RECURSIVE SeqRun(_, _, _)
SeqRun(js, fs, st) ==
    IF js = <<>> THEN st
    ELSE LET j == Head(js)
             before == Stat(fs, j.Source)
             fs1 == EncoderWrite(fs, j)
             after == Stat(fs1, j.Dest)
             fs2 == IF cfg.Replace THEN [fs1 EXCEPT ![j.Source] = NoFile] ELSE fs1
             st1 == [Total |-> st.Total + 1,
                     Converted |-> st.Converted + 1,
                     Failed |-> st.Failed,
                     SizeBefore |-> st.SizeBefore + (IF before # NoFile THEN before ELSE 0),
                     SizeAfter |-> st.SizeAfter + (IF after # NoFile THEN after ELSE 0)]
         IN  SeqRun(Tail(js), fs2, st1)

Width1Stats == SeqRun(jobs, files0, ZeroStats)

AllEncoded == \A j \in Enqueued : j.Source.name \in hist.encOk

\* C6 as claimed: when every encoder invocation succeeds, the final Stats of any pool
\* width equal, field by field, the final Stats of pool width 1 on the same jobs.
C6_StatsEqualWidthOne ==
    (PoolDone /\ AllEncoded) => stats = Width1Stats

\* The reference is the run of one worker: with pool width 1 the claim holds.
Width1IsSeqRun ==
    (PoolDone /\ AllEncoded /\ numCPU = 1) => stats = Width1Stats

\* The claim holds too when no two jobs share a destination.
DistinctDests == \A a, b \in DOMAIN jobs : a # b => jobs[a].Dest # jobs[b].Dest

StatsEqualWidthOneIfDistinctDests ==
    (PoolDone /\ AllEncoded /\ DistinctDests) => stats = Width1Stats

\* C7: a failed invocation does not stop the pool. A worker returns only when the
\* channel is closed and empty; after the pool every job of the list has its one
\* outcome and Failed counts the failed invocations; run returns nil (exit code 0)
\* whatever the number of failures; and the worker that counted a failure is next at
\* the head of its loop.
C7_FailureDoesNotStopPool ==
    /\ [](/\ \A w \in Workers : wpc[w] = "returned" => RangeExits
          /\ PoolDone =>
               /\ \A k \in DOMAIN jobs : Outcomes(jobs[k].Source.name) = 1
               /\ stats.Failed = Cardinality(hist.encFailed)
          /\ (opc = "exit" /\ sent > 0) => (ret = "nil" /\ ExitCode = 0))
    /\ [][\A w \in Workers :
              (wpc[w] = "addFailed" /\ wpc'[w] # "addFailed") =>
                  (wpc'[w] = "range" /\ wg' = wg)]_vars

\* C7 witness: the only worker counted a failure and is inside the encoder again
\* for the next job.
C7_Witness ==
    /\ numCPU = 1
    /\ stats.Failed >= 1
    /\ wpc[1] = "cmdRun"

NoEncoderStarted == \A n \in ImageNames : hist.encStarts[n] = 0

\* C8: without the encoder on the host run returns an error (exit code 1) straight
\* from its first check: no job list, no worker, no job sent, no invocation, no
\* output directory, no file changed.
C8_NoEncoderNoEffect ==
    ~hasFfmpeg =>
        /\ opc \in {"parseArgs", "hasCommand", "exit"}
        /\ (opc = "exit" /\ ret # "argError") => (ret = "error" /\ ExitCode = 1)
        /\ jobs = <<>>
        /\ spawned = 0
        /\ sent = 0
        /\ \A w \in Workers : wpc[w] = "idle"
        /\ NoEncoderStarted
        /\ ~outDir
        /\ files = files0

\* C8 witness: run has returned the error in a directory that holds an image.
C8_Witness ==
    /\ ~hasFfmpeg
    /\ opc = "exit"
    /\ ret = "error"
    /\ files[Path("work", ImageFiles[1])] # NoFile

\* C9 as claimed: when the answer to the prompt is not an explicit yes, run returns
\* nil (exit code 0), no job is sent, no encoder runs, and nothing was created,
\* written or deleted.
C9_CancelTouchesNothing ==
    hist.answer = "no" =>
        /\ opc = "exit"
        /\ ret = "nil"
        /\ ExitCode = 0
        /\ spawned = 0
        /\ sent = 0
        /\ NoEncoderStarted
        /\ files = files0
        /\ ~outDir

\* What does hold of a cancelled run: everything but the output directory.
CancelKeepsFilesAndStartsNothing ==
    hist.answer = "no" =>
        /\ opc = "exit" /\ ret = "nil" /\ spawned = 0 /\ sent = 0
        /\ NoEncoderStarted /\ files = files0
        /\ outDir = ~cfg.Replace

\* ------------------------------------------------------------- fairness
\* The Go scheduler runs every goroutine that can run, and every encoder invocation
\* returns.
\* os.Stat's failures change no step's successor, so the runs start with none.
FairInit == Init /\ statFails = {}

FairSpec ==
    /\ FairInit
    /\ [][Next]_vars
    /\ WF_vars(Run)
    /\ \A w \in Workers : WF_vars(Worker(w))

AllJobsDone == \A k \in DOMAIN jobs : Outcomes(jobs[k].Source.name) = 1

\* C10: once run starts the pool, it leads to the final report: every job of the
\* list has its outcome, every worker has returned and run has printed the summary
\* and returned; nobody waits forever on the channel, the mutex or the WaitGroup.
C10_PoolTerminates ==
    (opc = "spawn") ~>
        (/\ opc = "exit"
         /\ printed # NotPrinted
         /\ AllJobsDone
         /\ \A w \in Workers : Returned(w)
         /\ ffmpegMutex = 0)

\* C10 witness: run waits on the WaitGroup while one worker is inside the encoder
\* and another waits for the mutex.
C10_Witness ==
    /\ opc = "wait"
    /\ \E w, v \in Workers : wpc[w] = "cmdRun" /\ wpc[v] = "lock" /\ ffmpegMutex = w

\* C11: ffmpegMutex is released on every way out of convert, the failure of the
\* invocation included: the mutex is held only by a worker that is inside convert
\* (so it is free whenever no worker is), and the step that leaves convert frees it
\* whatever err is.
InConvert(w) == wpc[w] \in {"cmdRun", "unlock"}

C11_MutexFreeOutsideConvert ==
    /\ [](/\ ffmpegMutex # 0 => InConvert(ffmpegMutex)
          /\ \A w \in Workers : InConvert(w) => ffmpegMutex = w)
    /\ [][\A w \in Workers : (InConvert(w) /\ ~InConvert(w)') => ffmpegMutex' = 0]_vars

\* C11 witness: a worker has left convert with an error and another worker, which
\* took the mutex after it, is inside the encoder.
C11_Witness ==
    \E w, v \in Workers : wpc[w] = "addFailed" /\ wpc[v] = "cmdRun" /\ ffmpegMutex = v

\* The sum, over the jobs of a list, of the sources' sizes at the start.
RECURSIVE SumSourceSizes(_)
SumSourceSizes(js) ==
    IF js = <<>> THEN 0 ELSE files0[Head(js).Source] + SumSourceSizes(Tail(js))

\* The sum, over the jobs of a list, of the sizes of the files their own invocations make.
RECURSIVE SumOwnOutputs(_)
SumOwnOutputs(js) ==
    IF js = <<>> THEN 0 ELSE EncodedSize(Head(js).Source.name) + SumOwnOutputs(Tail(js))

AllSizesRead == \A k \in DOMAIN jobs : {jobs[k].Source, jobs[k].Dest} \cap statFails = {}

\* C12 as claimed: when every invocation and every size read succeeds, the final
\* Stats are Total = K, Converted = K, Failed = 0, SizeBefore = the sum of the
\* sources' sizes and SizeAfter = the sum of the sizes of the files the jobs' own
\* invocations produced, for any pool width.
C12_FinalStatsAreTheSums ==
    (PoolDone /\ AllEncoded /\ AllSizesRead) =>
        stats = [Total |-> Len(jobs),
                 Converted |-> Len(jobs),
                 Failed |-> 0,
                 SizeBefore |-> SumSourceSizes(jobs),
                 SizeAfter |-> SumOwnOutputs(jobs)]

\* It holds of every field but SizeAfter, and of SizeAfter too when no two jobs
\* share a destination.
FinalStatsAreTheSumsButSizeAfter ==
    (PoolDone /\ AllEncoded /\ AllSizesRead) =>
        /\ stats.Total = Len(jobs) /\ stats.Converted = Len(jobs) /\ stats.Failed = 0
        /\ stats.SizeBefore = SumSourceSizes(jobs)
        /\ DistinctDests => stats.SizeAfter = SumOwnOutputs(jobs)

\* ---------------------------------------------------------------------- C13
NoImages == \A p \in Sources : files0[p] = NoFile

\* C13: when the directory holds no eligible file, run ends in the scan with an
\* error and exit code 1, and nothing was done: no output subdirectory, no worker
\* started, no encoder invocation, no job, no file changed.
C13_NoImagesNoEffect ==
    NoImages =>
        /\ opc \in {"parseArgs", "hasCommand", "scan", "exit"}
        /\ opc = "exit" => (ret \in {"argError", "error"} /\ ExitCode = 1)
        /\ ~outDir
        /\ spawned = 0 /\ \A w \in Workers : wpc[w] = "idle"
        /\ jobs = <<>> /\ sent = 0
        /\ NoEncoderStarted
        /\ files = files0

C13_Witness ==
    /\ NoImages /\ hasFfmpeg /\ ~cfg.Replace /\ hist.dirRead
    /\ opc = "exit" /\ ret = "error" /\ ~outDir /\ jobs = <<>>

\* ---------------------------------------------------------------------- C14
\* A quality flag of the command line is followed by an integer outside 1..100.
HasBadQuality ==
    \E i \in 1..(Len(args) - 1) :
        /\ args[i] \in {ArgQ, ArgQuality}
        /\ i = 1 \/ args[i - 1] \notin {ArgQ, ArgQuality}
        /\ Atoi(args[i + 1]).ok
        /\ Atoi(args[i + 1]).v \notin 1..100

\* The command line names a directory that is not there.
NamesMissingDir == \E i \in DOMAIN args : args[i] = MissingDir

Rejected == opc = "exit" => (ret = "argError" /\ ExitCode = 1)

\* C14: a quality outside 1..100 is rejected with exit code 1 before any stat or
\* scan of a directory, and a directory that is not there is rejected with exit
\* code 1 with no output subdirectory; in both cases no job is built or sent.
C14_BadArgsRejected ==
    /\ HasBadQuality =>
         /\ opc \in {"parseArgs", "exit"} /\ Rejected
         /\ ~hist.dirRead /\ ~outDir
         /\ jobs = <<>> /\ sent = 0 /\ spawned = 0
    /\ NamesMissingDir =>
         /\ opc \in {"parseArgs", "exit"} /\ Rejected
         /\ ~outDir
         /\ jobs = <<>> /\ sent = 0 /\ spawned = 0

C14_Witness ==
    /\ HasBadQuality /\ NamesMissingDir
    /\ opc = "exit" /\ ret = "argError" /\ ~hist.dirRead

\* ---------------------------------------------------------------------- C15
\* C15: a worker leaves its loop, and calls wg.Done, only from the range statement
\* and only when the channel is closed and empty; a worker that finds the channel
\* empty and open stays where it is; a worker that has returned leaves no job in
\* the channel, and every job had been sent by then.
C15_ReturnOnlyWhenClosedAndEmpty ==
    /\ [](\A w \in Workers :
            wpc[w] = "returned" => (closed /\ jobCh = <<>> /\ sent = Len(jobs)))
    /\ [][\A w \in Workers :
            /\ (wpc[w] # "returned" /\ wpc'[w] = "returned")
                   => (wpc[w] = "range" /\ closed /\ jobCh = <<>> /\ wg' = wg - 1)
            /\ (wpc[w] = "range" /\ jobCh = <<>> /\ ~closed) => wpc'[w] = "range"
            /\ wg' < wg => \E v \in Workers : wpc[v] # "returned" /\ wpc'[v] = "returned"]_vars

\* Both workers wait at the range statement before anything was sent.
C15_Witness ==
    /\ spawned = MaxWorkers /\ \A w \in Workers : wpc[w] = "range"
    /\ opc = "send" /\ sent = 0 /\ jobCh = <<>> /\ ~closed /\ Len(jobs) > 0

\* ---------------------------------------------------------------------- C16
\* C16: the channel gets the jobs of the list, each once and in order, and is then
\* closed once: nothing is sent on a closed channel, the channel is closed only
\* after the last job was sent, and a closed channel stays closed with run past
\* its close statement.
C16_PopulatedOnceThenClosedOnce ==
    /\ [](/\ sent <= Len(jobs)
          /\ closed => (sent = Len(jobs) /\ opc \notin {"spawn", "send", "close"}))
    /\ [][/\ sent' # sent =>
               /\ ~closed /\ ~closed'
               /\ sent' = sent + 1
               /\ jobCh' = Append(jobCh, jobs[sent + 1])
          /\ closed' # closed =>
               /\ ~closed /\ opc = "close" /\ opc' = "wait"
               /\ sent = Len(jobs) /\ jobCh' = jobCh
          /\ closed => Len(jobCh') <= Len(jobCh)
          /\ sent > 0 => jobs' = jobs]_vars

C16_Witness == closed /\ Len(jobs) >= 2 /\ sent = Len(jobs) /\ jobCh # <<>>

\* ---------------------------------------------------------------------- C17
RECURSIVE SumBefore(_)
SumBefore(js) ==
    IF js = <<>> THEN 0 ELSE hist.before[Head(js).Source.name] + SumBefore(Tail(js))

RECURSIVE SumAfter(_)
SumAfter(js) ==
    IF js = <<>> THEN 0 ELSE hist.after[Head(js).Source.name] + SumAfter(Tail(js))

\* C17: a size read that fails never makes a job fail. A job whose source cannot be
\* read adds 0 to SizeBefore, a job whose destination cannot be read adds 0 to
\* SizeAfter, and a job is counted failed exactly when its encoder invocation
\* failed and converted exactly when it succeeded.
C17_StatFailureIsNotAJobFailure ==
    /\ stats.SizeBefore = SumBefore(jobs) /\ stats.SizeAfter = SumAfter(jobs)
    /\ \A k \in DOMAIN jobs :
         LET n == jobs[k].Source.name
         IN  /\ jobs[k].Source \in statFails => hist.before[n] = 0
             /\ jobs[k].Dest \in statFails => hist.after[n] = 0
             /\ hist.failed[n] > 0 => n \in hist.encFailed
             /\ hist.converted[n] > 0 => n \in hist.encOk
             /\ PoolDone => /\ n \in hist.encFailed => hist.failed[n] = 1
                            /\ n \in hist.encOk => hist.converted[n] = 1

\* After the pool: a job whose destination size could not be read is converted, and
\* so is one whose source size could not be read.
C17_Witness ==
    /\ PoolDone
    /\ \E k \in DOMAIN jobs :
         /\ {jobs[k].Source, jobs[k].Dest} \cap statFails # {}
         /\ hist.converted[jobs[k].Source.name] = 1
         /\ hist.before[jobs[k].Source.name] + hist.after[jobs[k].Source.name] > 0

\* ---------------------------------------------------------------------- C18
IsPrefix(s, t) == Len(s) <= Len(t) /\ SubSeq(t, 1, Len(s)) = s

\* The step sequences of a job that ran to its end.
JobOrders ==
    { <<"statSource", "encodeFailed", "failed">>,
      IF cfg.Replace
      THEN <<"statSource", "encodeOk", "statDest", "remove", "report">>
      ELSE <<"statSource", "encodeOk", "statDest", "report">> }

\* C18: the steps of a job come in the order stat source, encode, stat destination,
\* delete the source (in-place mode only), report, and a failed invocation is
\* followed by the failure count alone; so SizeAfter gets a job's destination size
\* only after that job's invocation succeeded, never for a failed job, and the
\* source is deleted only after the destination size was read.
C18_JobStepsInOrder ==
    \A n \in ImageNames :
        /\ \E o \in JobOrders : IsPrefix(hist.steps[n], o)
        /\ hist.after[n] > 0 => n \in hist.encOk
        /\ n \in hist.encFailed => hist.after[n] = 0
        /\ n \in hist.rmTried =>
             \E i, j \in DOMAIN hist.steps[n] :
                 i < j /\ hist.steps[n][i] = "statDest" /\ hist.steps[n][j] = "remove"

C18_Witness ==
    /\ cfg.Replace
    /\ \E n \in ImageNames :
         /\ hist.steps[n] = <<"statSource", "encodeOk", "statDest", "remove", "report">>
         /\ hist.after[n] > 0

\* ---------------------------------------------------------------------- C19
\* The workers that hold a job: received, outcome not yet counted.
Claimed == {w \in Workers : wjob[w] # NoJob}

\* Of these, the ones that have already added their job to Total.
Counted == {w \in Claimed : wpc[w] # "addTotal"}

InFlight == stats.Total - (stats.Converted + stats.Failed)

StatsNeverDecrease ==
    /\ stats'.Total >= stats.Total
    /\ stats'.Converted >= stats.Converted
    /\ stats'.Failed >= stats.Failed
    /\ stats'.SizeBefore >= stats.SizeBefore
    /\ stats'.SizeAfter >= stats.SizeAfter

\* C19: always Converted + Failed <= Total <= number of jobs sent, Total minus
\* (Converted + Failed) is the number of workers that have claimed a job and not yet
\* recorded its outcome, which is at most the pool's width, and no field of Stats
\* ever decreases.
C19_InFlightIsClaimed ==
    /\ [](/\ stats.Converted + stats.Failed <= stats.Total
          /\ stats.Total <= sent
          /\ InFlight = Cardinality(Claimed)
          /\ InFlight <= numCPU)
    /\ [][StatsNeverDecrease]_vars

\* The same, with the workers counted from their atomic add to Total on: a worker
\* that has received a job and not yet added it is not in the difference, which is
\* therefore at most the number of workers that hold a job.
InFlightIsCounted ==
    /\ [](/\ stats.Converted + stats.Failed <= stats.Total
          /\ stats.Total <= sent - Len(jobCh)
          /\ InFlight = Cardinality(Counted)
          /\ InFlight <= Cardinality(Claimed)
          /\ Cardinality(Claimed) <= spawned /\ spawned <= numCPU)
    /\ [][StatsNeverDecrease]_vars

\* Two workers hold a job, one has counted it and the other has not.
C19_Witness ==
    /\ Cardinality(Claimed) = 2 /\ Cardinality(Counted) = 1
    /\ InFlight = 1

\* ---------------------------------------------------------------------- C20
\* C20: the channel never holds more jobs than its capacity, which is the number of
\* jobs; run's next send can always be made, and so can its close, whatever the
\* workers do or do not do.
C20_SendNeverBlocks ==
    /\ Len(jobCh) <= ChanCap /\ Len(jobCh) <= Len(jobs)
    /\ opc = "send" => ENABLED Send
    /\ opc = "close" => ENABLED Close

\* Every job is in the channel, no worker has taken one, and run is at its close.
C20_Witness ==
    /\ opc = "close" /\ Len(jobs) >= 2 /\ Len(jobCh) = Len(jobs)
    /\ \A w \in Workers : wpc[w] = "range"

\* ==================================================== the first program
\* The file's first program (main, worker and convertToWebP with a results
\* channel), from the creation of its channels on: the directory was scanned, the
\* user has agreed and the output directory exists. It uses the variables of the
\* same names; stats holds its own Stats, and cfg, args, stdin, jobs and ret are not
\* used.
ValidExts == { <<".", "p", "n", "g">>, <<".", "j", "p", "g">>, <<".", "j", "p", "e", "g">>,
               <<".", "g", "i", "f">> }

\* scanImages: the entries that are no directory and have a valid extension.
RECURSIVE scanImages(_)
scanImages(entries) ==
    IF entries = <<>> THEN <<>>
    ELSE LET e == Head(entries)
             rest == scanImages(Tail(entries))
         IN  IF e.isDir \/ ToLower(Ext(e.name)) \notin ValidExts
             THEN rest
             ELSE <<Path("work", e.name)>> \o rest

NoImageJob == [SourcePath |-> Path("none", <<>>), DestPath |-> Path("none", <<>>), OrigSize |-> 0]

ZeroSummary == [TotalFiles |-> 0, ProcessedFiles |-> 0, OriginalSize |-> 0,
                ConvertedSize |-> 0, FailedFiles |-> 0]

\* A working directory with the first n image files and no dotfile.
PlainFiles(n) == [InitialFiles(n) EXCEPT ![Path("work", HiddenFile)] = NoFile]

ResultsInit ==
    /\ args = <<>> /\ cfg = ZeroConfig /\ hasFfmpeg = TRUE /\ stdin = <<>>
    /\ numCPU \in 1..MaxWorkers
    /\ statFails \in {{}, {Path("work", ImageFiles[1])}, {Path("out", DestName(ImageFiles[1]))}}
    /\ \E n \in 1..MaxFiles : files = PlainFiles(n)
    /\ files0 = files
    /\ outDir = TRUE
    /\ images = scanImages(DirEntries)
    /\ opc = "spawn"
    /\ ret = "none"
    /\ jobs = <<>>
    /\ spawned = 0
    /\ sent = 0
    /\ jobCh = <<>>
    /\ closed = FALSE
    /\ wg = 0
    /\ wpc = [w \in Workers |-> "idle"]
    /\ wjob = [w \in Workers |-> NoImageJob]
    /\ werr = [w \in Workers |-> FALSE]
    /\ ffmpegMutex = 0
    /\ stats = ZeroSummary
    /\ printed = NotPrinted
    /\ hist = ZeroHist
    /\ results = <<>>
    /\ resClosed = FALSE
    /\ closer = "idle"
    /\ wresult = [w \in Workers |-> NoResult]

\* What the first program never changes.
fixedVars == << args, cfg, files0, hasFfmpeg, stdin, numCPU, statFails, outDir, ret, jobs,
                images >>

\* make(chan ImageJob, len(images)) and make(chan ConversionResult, len(images))
JobsCap == Len(images)
ResultsCap == Len(images)

\* for i := 0; i < workers; i++ { wg.Add(1); go worker(jobs, results, &wg) }
MainSpawn ==
    /\ opc = "spawn"
    /\ spawned < numCPU
    /\ wg' = wg + 1
    /\ wpc' = [wpc EXCEPT ![spawned + 1] = "range"]
    /\ spawned' = spawned + 1
    /\ opc' = IF spawned + 1 = numCPU THEN "send" ELSE "spawn"
    /\ UNCHANGED << fixedVars, files, sent, jobCh, closed, wjob, werr, ffmpegMutex, stats,
                    printed, hist, results, resClosed, closer, wresult >>

\* One turn of the loop over images: os.Stat, `continue` when it fails, else the
\* send of the ImageJob, which blocks while the buffer is full.
MainSend ==
    /\ opc = "send"
    /\ sent < Len(images)
    /\ LET p == images[sent + 1]
           size == Stat(files, p)
       IN  IF size = NoFile
           THEN UNCHANGED << jobCh, hist >>
           ELSE /\ Len(jobCh) < JobsCap
                /\ jobCh' = Append(jobCh, [SourcePath |-> p,
                                           DestPath |-> Path("out", DestName(p.name)),
                                           OrigSize |-> size])
                /\ hist' = [hist EXCEPT !.enqueued = Append(@, p.name)]
    /\ sent' = sent + 1
    /\ opc' = IF sent + 1 = Len(images) THEN "close" ELSE "send"
    /\ UNCHANGED << fixedVars, files, spawned, closed, wg, wpc, wjob, werr, ffmpegMutex,
                    stats, printed, results, resClosed, closer, wresult >>

\* close(jobs)
MainClose ==
    /\ opc = "close"
    /\ closed' = TRUE
    /\ opc' = "go"
    /\ UNCHANGED << fixedVars, files, spawned, sent, jobCh, wg, wpc, wjob, werr,
                    ffmpegMutex, stats, printed, hist, results, resClosed, closer, wresult >>

\* go func() { wg.Wait(); close(results) }(), then stats := Stats{TotalFiles: len(images)}
MainGo ==
    /\ opc = "go"
    /\ closer' = "wait"
    /\ stats' = [ZeroSummary EXCEPT !.TotalFiles = Len(images)]
    /\ opc' = "collect"
    /\ UNCHANGED << fixedVars, files, spawned, sent, jobCh, closed, wg, wpc, wjob, werr,
                    ffmpegMutex, printed, hist, results, resClosed, wresult >>

CloserNeverWaits == TRUE

\* wg.Wait() returns when the counter is zero.
CloserReady == wg = 0

\* The goroutine's wg.Wait()
CloserWait ==
    /\ closer = "wait"
    /\ CloserReady
    /\ closer' = "close"
    /\ UNCHANGED << fixedVars, files, opc, spawned, sent, jobCh, closed, wg, wpc, wjob, werr,
                    ffmpegMutex, stats, printed, hist, results, resClosed, wresult >>

\* The goroutine's close(results)
CloserClose ==
    /\ closer = "close"
    /\ resClosed' = TRUE
    /\ closer' = "done"
    /\ UNCHANGED << fixedVars, files, opc, spawned, sent, jobCh, closed, wg, wpc, wjob, werr,
                    ffmpegMutex, stats, printed, hist, results, wresult >>

\* What the aggregating loop does with one result.
Aggregate(st, r) ==
    IF r.Success
    THEN [st EXCEPT !.ProcessedFiles = @ + 1,
                    !.OriginalSize = @ + r.OrigSize,
                    !.ConvertedSize = @ + r.NewSize]
    ELSE [st EXCEPT !.FailedFiles = @ + 1]

\* One turn of `for result := range results`: take a result, or leave the loop when
\* the channel is closed and empty, or block.
MainCollect ==
    /\ opc = "collect"
    /\ \/ /\ Len(results) > 0
          /\ stats' = Aggregate(stats, Head(results))
          /\ hist' = [hist EXCEPT !.resRecv[Head(results).SourcePath.name] = @ + 1]
          /\ results' = Tail(results)
          /\ opc' = opc
       \/ /\ Len(results) = 0 /\ resClosed
          /\ opc' = "summary"
          /\ UNCHANGED << stats, hist, results >>
    /\ UNCHANGED << fixedVars, files, spawned, sent, jobCh, closed, wg, wpc, wjob, werr,
                    ffmpegMutex, printed, resClosed, closer, wresult >>

\* printSummary(stats), and main returns.
MainPrintSummary ==
    /\ opc = "summary"
    /\ printed' = stats
    /\ opc' = "exit"
    /\ UNCHANGED << fixedVars, files, spawned, sent, jobCh, closed, wg, wpc, wjob, werr,
                    ffmpegMutex, stats, hist, results, resClosed, closer, wresult >>

\* worker's `for job := range jobs`: take a job and build its result, or leave the
\* loop and run the deferred wg.Done() when the channel is closed and empty.
WorkerReceive(w) ==
    /\ wpc[w] = "range"
    /\ \/ /\ Len(jobCh) > 0
          /\ wjob' = [wjob EXCEPT ![w] = Head(jobCh)]
          /\ wresult' = [wresult EXCEPT ![w] =
                            [NoResult EXCEPT !.SourcePath = Head(jobCh).SourcePath,
                                             !.DestPath = Head(jobCh).DestPath,
                                             !.OrigSize = Head(jobCh).OrigSize]]
          /\ jobCh' = Tail(jobCh)
          /\ wpc' = [wpc EXCEPT ![w] = "lock"]
          /\ hist' = [hist EXCEPT !.claims[Head(jobCh).SourcePath.name] = @ + 1]
          /\ wg' = wg
       \/ /\ Len(jobCh) = 0 /\ closed
          /\ wpc' = [wpc EXCEPT ![w] = "returned"]
          /\ wg' = wg - 1
          /\ UNCHANGED << wjob, wresult, jobCh, hist >>
    /\ UNCHANGED << fixedVars, files, opc, spawned, sent, closed, werr, ffmpegMutex, stats,
                    printed, results, resClosed, closer >>

\* convertToWebP: ffmpegMutex.Lock()
ConvertLock(w) ==
    /\ wpc[w] = "lock"
    /\ ffmpegMutex = 0
    /\ ffmpegMutex' = w
    /\ wpc' = [wpc EXCEPT ![w] = "cmdRun"]
    /\ UNCHANGED << fixedVars, files, opc, spawned, sent, jobCh, closed, wg, wjob, werr,
                    stats, printed, hist, results, resClosed, closer, wresult >>

\* convertToWebP: cmd.Run() returns; a failure is the function's error.
ConvertRun(w) ==
    /\ wpc[w] = "cmdRun"
    /\ \E ok \in BOOLEAN :
         /\ ok => files[wjob[w].SourcePath] # NoFile
         /\ files' = IF ok THEN [files EXCEPT ![wjob[w].DestPath] =
                                                  EncodedSize(wjob[w].SourcePath.name)]
                    ELSE files
         /\ werr' = [werr EXCEPT ![w] = ~ok]
         /\ wpc' = [wpc EXCEPT ![w] = IF ok THEN "statDest" ELSE "unlock"]
    /\ UNCHANGED << fixedVars, opc, spawned, sent, jobCh, closed, wg, wjob, ffmpegMutex,
                    stats, printed, hist, results, resClosed, closer, wresult >>

\* convertToWebP: os.Stat(destPath), still under the mutex; its failure is the
\* function's error, its size the function's value.
ConvertStat(w) ==
    /\ wpc[w] = "statDest"
    /\ LET size == Stat(files, wjob[w].DestPath)
       IN  /\ werr' = [werr EXCEPT ![w] = size = NoFile]
           /\ wresult' = [wresult EXCEPT ![w].NewSize = IF size = NoFile THEN 0 ELSE size]
    /\ wpc' = [wpc EXCEPT ![w] = "unlock"]
    /\ UNCHANGED << fixedVars, files, opc, spawned, sent, jobCh, closed, wg, wjob,
                    ffmpegMutex, stats, printed, hist, results, resClosed, closer >>

\* convertToWebP returns: the deferred Unlock, then worker sets result.Success.
ConvertUnlock(w) ==
    /\ wpc[w] = "unlock"
    /\ ffmpegMutex' = 0
    /\ wresult' = [wresult EXCEPT ![w].Success = ~werr[w]]
    /\ wpc' = [wpc EXCEPT ![w] = "sendResult"]
    /\ UNCHANGED << fixedVars, files, opc, spawned, sent, jobCh, closed, wg, wjob, werr,
                    stats, printed, hist, results, resClosed, closer >>

\* results <- result: a send on a closed channel panics, a send on a full one blocks.
WorkerSendResult(w) ==
    /\ wpc[w] = "sendResult"
    /\ IF resClosed
       THEN /\ wpc' = [wpc EXCEPT ![w] = "panic"]
            /\ UNCHANGED << results, hist, wjob, wresult, werr >>
       ELSE /\ Len(results) < ResultsCap
            /\ results' = Append(results, wresult[w])
            /\ hist' = [hist EXCEPT !.resSent[wjob[w].SourcePath.name] = @ + 1]
            /\ wpc' = [wpc EXCEPT ![w] = "range"]
            /\ wjob' = [wjob EXCEPT ![w] = NoImageJob]
            /\ wresult' = [wresult EXCEPT ![w] = NoResult]
            /\ werr' = [werr EXCEPT ![w] = FALSE]
    /\ UNCHANGED << fixedVars, files, opc, spawned, sent, jobCh, closed, wg, ffmpegMutex,
                    stats, printed, resClosed, closer >>

ResultsWorker(w) ==
    \/ WorkerReceive(w) \/ ConvertLock(w) \/ ConvertRun(w) \/ ConvertStat(w)
    \/ ConvertUnlock(w) \/ WorkerSendResult(w)

Main ==
    \/ MainSpawn \/ MainSend \/ MainClose \/ MainGo \/ MainCollect \/ MainPrintSummary

Closer == CloserWait \/ CloserClose

ResultsNext == Main \/ Closer \/ \E w \in Workers : ResultsWorker(w)

ResultsSpec == ResultsInit /\ [][ResultsNext]_vars

\* ---------------------------------------------------------------------- C21
\* The jobs main has sent so far.
EnqueuedJobs == Len(hist.enqueued)

Times(n, seq) == Cardinality({k \in DOMAIN seq : seq[k] = n})

\* C21: in the first program the results channel is closed only when every worker
\* has returned; a worker about to send its result finds the channel open and not
\* full, so it neither panics nor blocks; when the aggregating loop has ended, main
\* has received one result for each job it sent, so ProcessedFiles + FailedFiles is
\* the number of jobs sent when printSummary is called.
C21_ResultsClosedAfterWorkers ==
    /\ resClosed => \A w \in 1..numCPU : wpc[w] = "returned"
    /\ \A w \in Workers :
         /\ wpc[w] # "panic"
         /\ wpc[w] = "sendResult" =>
              (~resClosed /\ Len(results) < ResultsCap /\ ENABLED WorkerSendResult(w))
    /\ opc \in {"summary", "exit"} =>
         /\ sent = Len(images) /\ results = <<>> /\ resClosed
         /\ \A n \in ImageNames :
              /\ hist.resRecv[n] = Times(n, hist.enqueued)
              /\ hist.resSent[n] = hist.resRecv[n]
         /\ stats.ProcessedFiles + stats.FailedFiles = EnqueuedJobs
    /\ printed # NotPrinted =>
         printed.ProcessedFiles + printed.FailedFiles = EnqueuedJobs

\* The summary was printed after two workers sent a success and a failure.
C21_Witness ==
    /\ opc = "exit" /\ numCPU >= 2
    /\ printed # NotPrinted
    /\ printed.ProcessedFiles >= 1 /\ printed.FailedFiles >= 1
    /\ EnqueuedJobs >= 2
====
